---- MODULE Spec2Model ----
(***************************************************************************)
(* Model of MyTimer (src/app/mytimer.class.js, latest revision, lines      *)
(* 528-797): the public timer object, its sampling loop and its events.    *)
(* The private object (mytimer.defaults: is_counting, is_paused,           *)
(* is_stopped, cumulateEllapsed, zeroTimes, reset, ellapsed, isEllapsed,   *)
(* convert, the step setters) is not part of the source at hand and is     *)
(* modelled from the written specification of TimerState.                  *)
(*                                                                         *)
(* Time is the wall clock in abstract milliseconds.  A call runs to        *)
(* completion at one clock value (single-threaded, no time passes inside   *)
(* a call).                                                                *)
(***************************************************************************)
EXTENDS Integers, Sequences, FiniteSets, TLC

\* Bounds of the exploration.
MaxClock == 3
MaxSession == 3
MaxInterval == 2
MaxValue == 1
MaxRegs == 2
MaxListeners == 2
MaxLate == 1

\* Marker of an options.value that is not a number.
NaN == -1

VARIABLES
    timer,      \* the MyTimer instance: private object, interval table, last call's output
    clock,      \* Date.now()
    call,       \* the call or step that produced the current state
    runMs,      \* history: wall-clock time spent running since the times were last reset
    idled,      \* history: time has passed while paused since the times were last reset
    clean,      \* history: since the last fresh start only punctual ticks and time passed
    live        \* history: per event, the registrations made and not removed, oldest first

vars == <<timer, clock, call, runMs, idled, clean, live>>

Min(a, b) == IF a < b THEN a ELSE b
Max(a, b) == IF a > b THEN a ELSE b

RunStates == {"idle", "running", "paused", "stopped"}
steps == {"session", "interval"}
Units == {"milliseconds", "seconds", "parsecs"}
Methods == {"stop", "pause", "reset", "bogus"}
events ==
    {"sessionStarted", "sessionStopped", "sessionPaused", "currentTime",
     "sessionChanged", "timerReset"}

Count(seq, e) == Cardinality({i \in 1..Len(seq) : seq[i] = e})

----------------------------------------------------------------------------
(* The private object (TimerState).                                        *)

is_counting(s) == s.runState = "running"
is_paused(s) == s.runState = "paused"

\* elapsedMs(): banked time plus the live delta of the running segment,
\* measured at the last sampled time, clamped to [0, session].
ellapsed(s) ==
    LET raw == s.cumulated + (IF is_counting(s) THEN s.now - s.start ELSE 0)
    IN  Max(0, Min(raw, s.session))

remaining(s) == s.session - ellapsed(s)

\* isSessionComplete()
isEllapsed(s) == ellapsed(s) >= s.session

\* markRunning(): _this.is_counting = true
set_is_counting(s, t) == [s EXCEPT !.runState = "running", !.start = t]

\* the banking step of markPaused()/markStopped(): only a running segment has a
\* live delta to bank
cumulateEllapsed(s, t) ==
    IF is_counting(s)
    THEN [s EXCEPT !.now = t, !.cumulated = @ + (t - s.start)]
    ELSE s

\* _this.is_paused = true
set_is_paused(s) == [s EXCEPT !.runState = "paused"]

\* _this.is_stopped = true, with the clamp of markStopped()
set_is_stopped(s) ==
    [s EXCEPT !.runState = "stopped", !.cumulated = Min(@, s.session)]

\* resume in place: a new segment begins now, banked time is kept
zeroTimes(s, t) == [s EXCEPT !.start = t, !.now = t]

\* resetTimes(): _privateObjects.get(this).reset()
resetTimes(s, t) == [s EXCEPT !.cumulated = 0, !.start = t, !.now = t]

\* the duration-conversion collaborator
UnitMs(u) == IF u = "seconds" THEN 1000 ELSE 1
convertFails(options) == options.value = NaN \/ options.units \notin {"milliseconds", "seconds"}
convert(options) == options.value * UnitMs(options.units)

\* setStep("session", ...): _this[step] = {value: value}
setSession(s, value) == [s EXCEPT !.session = value]

----------------------------------------------------------------------------
(* The event channel and the runtime's interval table.                     *)

\* the slot of listeners[eventName] that remove() has deleted
Hole == [listener |-> "none", method |-> "none"]
IsSlot(x) == x # Hole

\* event.subscribe(listener, eventName, method): pushes the registration; the
\* handle it returns removes index Len(listeners[eventName]) of that event
subscribe(s, listener, eventName, method) ==
    [s EXCEPT !.listeners[eventName] =
                  Append(@, [listener |-> listener, method |-> method])]

\* a remove() that takes the element out of the array, moving the later ones down
remove_splice(s, eventName, index) ==
    [s EXCEPT !.listeners[eventName] =
                  SubSeq(@, 1, index - 1) \o SubSeq(@, index + 1, Len(@))]

\* handle.remove(): delete listeners[eventName][index] leaves a hole
remove(s, eventName, index) ==
    [s EXCEPT !.listeners[eventName] =
                  [i \in 1..Len(@) |-> IF i = index THEN Hole ELSE @[i]]]

\* event.publish(eventName): forEach calls listener[method]() for every slot
\* that is not a hole, in index order
publish(s, eventName) ==
    [s EXCEPT !.published = Append(@, eventName),
              !.invoked = @ \o SelectSeq(s.listeners[eventName], IsSlot)]

\* setInterval(publishTime, _this.interval): a new registration, first due one
\* interval from now; _this.countDown names it.
setInterval(s, t) ==
    [s EXCEPT !.scheduled = Append(@, t + s.interval), !.countDown = TRUE]

\* if (countDown) clearInterval(countDown): removes the registration the handle
\* names, if it is still active; a stale handle clears nothing.
clearInterval(s) ==
    IF s.countDown /\ Len(s.scheduled) > 0
    THEN [s EXCEPT !.scheduled = SubSeq(@, 1, Len(@) - 1), !.countDown = FALSE]
    ELSE s

----------------------------------------------------------------------------
(* MyTimer's methods: s is the instance, t is Date.now().                  *)

\* reset() as the earlier revision wrote it: it stops the timer first
reset_stops(s, t) ==
    LET s1 == IF is_counting(s) \/ is_paused(s)
              THEN publish(clearInterval(set_is_stopped(cumulateEllapsed(s, t))), "sessionStopped")
              ELSE s
    IN  [publish(resetTimes(s1, t), "timerReset") EXCEPT !.returned = "undefined"]

reset(s, t) ==
    [publish(resetTimes(s, t), "timerReset") EXCEPT !.returned = "undefined"]

\* stop() that forgets to bank the running segment
stop_nobank(s, t) ==
    IF is_counting(s) \/ is_paused(s)
    THEN LET s2 == set_is_stopped(s)
             s3 == clearInterval(s2)
         IN  [publish(s3, "sessionStopped") EXCEPT !.returned = "this"]
    ELSE [s EXCEPT !.returned = "false"]

\* stop() as the first revision wrote it: it marks and publishes whatever the state
stop_always(s, t) ==
    LET s1 == IF is_counting(s) THEN clearInterval(cumulateEllapsed(s, t)) ELSE s
    IN  [publish(set_is_stopped(s1), "sessionStopped") EXCEPT !.returned = "this"]

\* stop() that banks the time since the last start also for a paused timer
stop_banksPaused(s, t) ==
    IF is_counting(s) \/ is_paused(s)
    THEN LET s1 == [s EXCEPT !.now = t, !.cumulated = @ + (t - s.start)]
             s2 == set_is_stopped(s1)
             s3 == clearInterval(s2)
         IN  [publish(s3, "sessionStopped") EXCEPT !.returned = "this"]
    ELSE [s EXCEPT !.returned = "false"]

stop(s, t) ==
    IF is_counting(s) \/ is_paused(s)
    THEN LET s1 == cumulateEllapsed(s, t)
             s2 == set_is_stopped(s1)
             s3 == clearInterval(s2)
         IN  [publish(s3, "sessionStopped") EXCEPT !.returned = "this"]
    ELSE [s EXCEPT !.returned = "false"]

\* pause() that forgets to bank the running segment
pause_nobank(s, t) ==
    IF is_counting(s)
    THEN LET s2 == set_is_paused(s)
             s3 == clearInterval(s2)
         IN  [publish(s3, "sessionPaused") EXCEPT !.returned = "this"]
    ELSE [s EXCEPT !.returned = "false"]

\* pause() that forgets to cancel the registration
pause_noclear(s, t) ==
    IF is_counting(s)
    THEN LET s1 == cumulateEllapsed(s, t)
             s2 == set_is_paused(s1)
         IN  [publish(s2, "sessionPaused") EXCEPT !.returned = "this"]
    ELSE [s EXCEPT !.returned = "false"]

\* pause() without the guard: it pauses whatever the state
pause_noguard(s, t) ==
    LET s1 == cumulateEllapsed(s, t)
        s2 == set_is_paused(s1)
        s3 == clearInterval(s2)
    IN  [publish(s3, "sessionPaused") EXCEPT !.returned = "this"]

pause(s, t) ==
    IF is_counting(s)
    THEN LET s1 == cumulateEllapsed(s, t)
             s2 == set_is_paused(s1)
             s3 == clearInterval(s2)
         IN  [publish(s3, "sessionPaused") EXCEPT !.returned = "this"]
    ELSE [s EXCEPT !.returned = "false"]

\* start() without the guard against a timer that is already counting
start_noguard(s, t) ==
    LET s1 == IF ~is_paused(s) THEN reset(s, t) ELSE zeroTimes(s, t)
        s2 == set_is_counting(s1, t)
        s3 == setInterval(s2, t)
    IN  [publish(s3, "sessionStarted") EXCEPT !.returned = "this"]

\* start() as the earlier revisions wrote it: the start time is taken before the guard
start_early(s, t) ==
    LET s0 == [s EXCEPT !.start = t]
    IN  IF ~is_counting(s0)
        THEN LET s1 == IF ~is_paused(s0) THEN reset(s0, t) ELSE zeroTimes(s0, t)
                 s2 == set_is_counting(s1, t)
                 s3 == setInterval(s2, t)
             IN  [publish(s3, "sessionStarted") EXCEPT !.returned = "this"]
        ELSE [s0 EXCEPT !.returned = "false"]

\* start() that resets the times also when it resumes a paused timer
start_resets(s, t) ==
    IF ~is_counting(s)
    THEN LET s1 == reset(s, t)
             s2 == set_is_counting(s1, t)
             s3 == setInterval(s2, t)
         IN  [publish(s3, "sessionStarted") EXCEPT !.returned = "this"]
    ELSE [s EXCEPT !.returned = "false"]

\* start() that resets the private object's times directly: no timerReset
start_silentReset(s, t) ==
    IF ~is_counting(s)
    THEN LET s1 == IF ~is_paused(s) THEN resetTimes(s, t) ELSE zeroTimes(s, t)
             s2 == set_is_counting(s1, t)
             s3 == setInterval(s2, t)
         IN  [publish(s3, "sessionStarted") EXCEPT !.returned = "this"]
    ELSE [s EXCEPT !.returned = "false"]

start(s, t) ==
    IF ~is_counting(s)
    THEN LET s1 == IF ~is_paused(s) THEN reset(s, t) ELSE zeroTimes(s, t)
             s2 == set_is_counting(s1, t)
             s3 == setInterval(s2, t)
         IN  [publish(s3, "sessionStarted") EXCEPT !.returned = "this"]
    ELSE [s EXCEPT !.returned = "false"]

\* the callback as the earlier revisions wrote it: sample and publish, then test
publishTime_first(s, t) ==
    LET s1 == publish([s EXCEPT !.now = t], "currentTime")
    IN  IF isEllapsed(s1) THEN stop(s1, t) ELSE s1

\* the callback without the sampling of the time
publishTime_nosample(s, t) ==
    IF ~isEllapsed(s)
    THEN publish(s, "currentTime")
    ELSE stop(s, t)

\* the callback without the automatic stop of a complete session
publishTime_nostop(s, t) ==
    publish([s EXCEPT !.now = t], "currentTime")

\* the callback start() registers
publishTime(s, t) ==
    IF ~isEllapsed(s)
    THEN publish([s EXCEPT !.now = t], "currentTime")
    ELSE stop(s, t)

\* the sign taken as given
normSign_raw(sign) == sign

normSign(sign) == IF sign # 1 /\ sign # -1 THEN 1 ELSE sign
normIncrement(increment) == IF increment # 0 /\ increment # 1 THEN 0 ELSE increment

stepValue(s, step) == IF step = "session" THEN s.session ELSE s.interval

\* the value without the check that a step's length cannot be negative
newValue_noclamp(s, options) ==
    convert(options) * normSign(options.sign)
        + stepValue(s, options.step) * normIncrement(options.increment)

\* the value changeStep computes for the step, before the step's procedure
newValue(s, options) ==
    Max(0, convert(options) * normSign(options.sign)
           + stepValue(s, options.step) * normIncrement(options.increment))

\* the session's procedure with the publication of the time outside its test
stepProcedure_publishesAnyway(s, step, value) ==
    IF step = "session"
    THEN IF (~is_counting(s) /\ ~is_paused(s)) \/ value > ellapsed(s)
         THEN publish(publish(setSession(s, value), "sessionChanged"), "currentTime")
         ELSE publish(s, "currentTime")
    ELSE s

stepProcedure(s, step, value) ==
    IF step = "session"
    THEN IF (~is_counting(s) /\ ~is_paused(s)) \/ value > ellapsed(s)
         THEN publish(publish(setSession(s, value), "sessionChanged"), "currentTime")
         ELSE s
    ELSE s

\* changeStep as the first revision wrote it: an unknown step is only warned about
changeStep_warns(s, options) ==
    IF options.step \in steps
    THEN LET sign == normSign(options.sign)
         IN  IF sign > 0 \/ (sign < 0 /\ stepValue(s, options.step) > 0)
             THEN IF convertFails(options)
                  THEN [s EXCEPT !.returned = "throw"]
                  ELSE [stepProcedure(s, options.step, newValue(s, options))
                            EXCEPT !.returned = "true"]
             ELSE [s EXCEPT !.returned = "false"]
    ELSE [s EXCEPT !.returned = "undefined"]

\* changeStep that converts the value before it looks at the sign
changeStep_convertsFirst(s, options) ==
    IF options.step \in steps
    THEN IF convertFails(options)
         THEN [s EXCEPT !.returned = "throw"]
         ELSE LET sign == normSign(options.sign)
              IN  IF sign > 0 \/ (sign < 0 /\ stepValue(s, options.step) > 0)
                  THEN [stepProcedure(s, options.step, newValue(s, options))
                            EXCEPT !.returned = "true"]
                  ELSE [s EXCEPT !.returned = "false"]
    ELSE [s EXCEPT !.returned = "throw"]

changeStep(s, options) ==
    IF options.step \in steps
    THEN LET sign == normSign(options.sign)
         IN  IF sign > 0 \/ (sign < 0 /\ stepValue(s, options.step) > 0)
             THEN IF convertFails(options)
                  THEN [s EXCEPT !.returned = "throw"]
                  ELSE [stepProcedure(s, options.step, newValue(s, options))
                            EXCEPT !.returned = "true"]
             ELSE [s EXCEPT !.returned = "false"]
    ELSE [s EXCEPT !.returned = "throw"]

\* this[method]() as toggle calls it: without arguments
invoke(s, method, t) ==
    CASE method = "stop" -> stop(s, t)
      [] method = "pause" -> pause(s, t)
      [] method = "start" -> start(s, t)
      [] method = "reset" -> reset(s, t)
      [] OTHER -> [s EXCEPT !.returned = "throw"]

\* toggle with the test of the result inverted
toggle_inverted(s, method, t) ==
    LET r == invoke(s, method, t)
    IN  IF r.returned = "throw"
        THEN [r EXCEPT !.returned = "undefined"]
        ELSE IF r.returned \notin {"false", "undefined"}
             THEN [start(r, t) EXCEPT !.returned = "undefined"]
             ELSE [r EXCEPT !.returned = "undefined"]

toggle(s, method, t) ==
    LET r == invoke(s, method, t)
    IN  IF r.returned = "throw"
        THEN [r EXCEPT !.returned = "undefined"]
        ELSE IF r.returned \in {"false", "undefined"}
             THEN [start(r, t) EXCEPT !.returned = "undefined"]
             ELSE [r EXCEPT !.returned = "undefined"]

----------------------------------------------------------------------------
(* The calls a client can make, and the passage of time.                   *)

NoOptions == [step |-> "none", value |-> 0, units |-> "milliseconds", sign |-> 1, increment |-> 0]

\* The options objects changeStep is tried with: every well-formed change in
\* milliseconds, and the malformed ones.
OptionsSet ==
    [step : {"session"}, value : 0..MaxValue, units : {"milliseconds"},
     sign : {-1, 1}, increment : {0, 1}]
    \cup [step : {"session"}, value : {1}, units : {"milliseconds"},
          sign : {0}, increment : {2}]
    \cup [step : {"session"}, value : {0}, units : {"seconds"},
          sign : {1}, increment : {1}]
    \cup [step : {"session"}, value : {NaN}, units : {"milliseconds"},
          sign : {1}, increment : {1}]
    \cup [step : {"session"}, value : {1}, units : {"parsecs"},
          sign : {1}, increment : {1}]
    \cup [step : {"session"}, value : {NaN}, units : {"parsecs"},
          sign : {-1}, increment : {1}]
    \cup [step : {"interval", "bogus"}, value : {1}, units : {"milliseconds"},
          sign : {1}, increment : {1}]

Called(op) == [op |-> op, method |-> "none", options |-> NoOptions]

Has(s, eventName) == Count(s.published, eventName) > 0

\* the instance as a call finds it: nothing published yet, nothing returned
Begin(s) == [s EXCEPT !.published = <<>>, !.invoked = <<>>, !.returned = "none"]

\* Bookkeeping of the history variables over a call that leads to instance n.
History(n) ==
    /\ runMs' = IF Has(n, "timerReset") THEN 0 ELSE runMs
    /\ idled' = (idled /\ ~Has(n, "timerReset"))
    /\ UNCHANGED live

\* A call is explored only while the instance stays within the bounds.
Within(n) == Len(n.scheduled) <= MaxRegs /\ n.session <= MaxSession

Init ==
    /\ clock = 0
    /\ \E session \in 0..MaxSession, interval \in 1..MaxInterval :
          timer = [runState |-> "idle", session |-> session, interval |-> interval,
                   start |-> 0, cumulated |-> 0, now |-> 0,
                   countDown |-> FALSE, scheduled |-> <<>>,
                   listeners |-> [e \in events |-> <<>>],
                   published |-> <<>>, invoked |-> <<>>, returned |-> "none"]
    /\ call = Called("new")
    /\ runMs = 0
    /\ idled = FALSE
    /\ clean = FALSE
    /\ live = [e \in events |-> <<>>]

Start ==
    LET n == start(Begin(timer), clock)
    IN  /\ Within(n)
        /\ timer' = n
        /\ call' = Called("start")
        /\ clean' = (n.returned = "this" /\ Has(n, "timerReset"))
        /\ History(n)
        /\ UNCHANGED clock

Stop ==
    LET n == stop(Begin(timer), clock)
    IN  /\ Within(n)
        /\ timer' = n
        /\ call' = Called("stop")
        /\ clean' = FALSE
        /\ History(n)
        /\ UNCHANGED clock

Pause ==
    LET n == pause(Begin(timer), clock)
    IN  /\ Within(n)
        /\ timer' = n
        /\ call' = Called("pause")
        /\ clean' = FALSE
        /\ History(n)
        /\ UNCHANGED clock

Reset ==
    LET n == reset(Begin(timer), clock)
    IN  /\ Within(n)
        /\ timer' = n
        /\ call' = Called("reset")
        /\ clean' = FALSE
        /\ History(n)
        /\ UNCHANGED clock

ChangeStep ==
    \E options \in OptionsSet :
        LET n == changeStep(Begin(timer), options)
        IN  /\ Within(n)
            /\ timer' = n
            /\ call' = [op |-> "changeStep", method |-> "none", options |-> options]
            /\ clean' = FALSE
            /\ History(n)
            /\ UNCHANGED clock

Toggle ==
    \E method \in Methods :
        LET n == toggle(Begin(timer), method, clock)
        IN  /\ Within(n)
            /\ timer' = n
            /\ call' = [op |-> "toggle", method |-> method, options |-> NoOptions]
            /\ clean' = FALSE
            /\ History(n)
            /\ UNCHANGED clock

\* A registration whose time has come fires: the runtime re-arms it and runs
\* the callback.
Tick ==
    \E i \in 1..Len(timer.scheduled) :
        /\ clock >= timer.scheduled[i]
        /\ LET armed == [Begin(timer) EXCEPT !.scheduled[i] = clock + timer.interval]
               n == [publishTime(armed, clock) EXCEPT !.returned = "none"]
           IN  /\ timer' = n
               /\ call' = Called("tick")
               /\ UNCHANGED <<clock, runMs, idled, clean, live>>

\* One millisecond passes.  A tick that is due may be late.
Advance ==
    /\ clock < MaxClock
    /\ clock' = clock + 1
    /\ timer' = Begin(timer)
    /\ call' = Called("advance")
    /\ runMs' = IF is_counting(timer) THEN runMs + 1 ELSE runMs
    /\ idled' = (idled \/ is_paused(timer))
    /\ clean' = (clean /\ \A i \in 1..Len(timer.scheduled) : clock < timer.scheduled[i])
    /\ UNCHANGED live

Next ==
    \/ Start
    \/ Stop
    \/ Pause
    \/ Reset
    \/ ChangeStep
    \/ Toggle
    \/ Tick
    \/ Advance

Spec == Init /\ [][Next]_vars

----------------------------------------------------------------------------
(* The event channel with listeners: a client subscribes, removes, and the *)
(* timer publishes while it runs one short session.                        *)

Listeners == {"A", "B"}
ListenerMethods == {"onTick"}
Subscribed == {"currentTime", "sessionStopped"}

Slots(s) == Len(s.listeners["currentTime"]) + Len(s.listeners["sessionStopped"])

InitEvents == Init /\ timer.session = 1 /\ timer.interval = 1

Subscribe ==
    \E listener \in Listeners, eventName \in Subscribed, method \in ListenerMethods :
        /\ Slots(timer) < MaxListeners
        /\ timer' = [subscribe(Begin(timer), listener, eventName, method)
                        EXCEPT !.returned = "handle"]
        /\ call' = [op |-> "subscribe", method |-> eventName, options |-> NoOptions]
        /\ live' = [live EXCEPT ![eventName] =
                        Append(@, [index |-> Len(timer.listeners[eventName]) + 1,
                                   listener |-> listener, method |-> method])]
        /\ UNCHANGED <<clock, runMs, idled, clean>>

\* remove() of the handle that subscribe returned for index of eventName; a
\* handle can be used again after it has removed its registration
Remove ==
    \E eventName \in Subscribed :
        \E index \in 1..Len(timer.listeners[eventName]) :
            /\ timer' = [remove(Begin(timer), eventName, index)
                            EXCEPT !.returned = "true"]
            /\ call' = [op |-> "remove", method |-> eventName, options |-> NoOptions]
            /\ live' = [live EXCEPT ![eventName] =
                            SelectSeq(@, LAMBDA r : r.index # index)]
            /\ UNCHANGED <<clock, runMs, idled, clean>>

NextEvents ==
    \/ Subscribe
    \/ Remove
    \/ Start
    \/ Tick
    \/ Advance

SpecEvents == InitEvents /\ [][NextEvents]_vars

----------------------------------------------------------------------------
(* The timer left to run: the client starts and pauses it during the first *)
(* MaxClock milliseconds and then leaves it alone, the runtime delivers    *)
(* every tick at most MaxLate milliseconds after it is due, and time goes  *)
(* on until every run begun in that window must have ended.                *)

\* A run lasts at most session / interval + 2 ticks, each at most
\* interval + MaxLate after the one before.
Horizon == MaxClock + (MaxSession + 2) * (MaxInterval + MaxLate)

\* One millisecond passes, unless a due tick has waited as long as it may.
AdvanceLive ==
    /\ clock < Horizon
    /\ \A i \in 1..Len(timer.scheduled) : clock < timer.scheduled[i] + MaxLate
    /\ clock' = clock + 1
    /\ timer' = Begin(timer)
    /\ call' = Called("advance")
    /\ runMs' = IF is_counting(timer) THEN runMs + 1 ELSE runMs
    /\ idled' = (idled \/ is_paused(timer))
    /\ clean' = (clean /\ \A i \in 1..Len(timer.scheduled) : clock < timer.scheduled[i])
    /\ UNCHANGED live

\* the client's calls, made during the first MaxClock milliseconds
StartLive == clock <= MaxClock /\ Start
PauseLive == clock <= MaxClock /\ Pause

NextLive ==
    \/ StartLive
    \/ PauseLive
    \/ Tick
    \/ AdvanceLive

\* The event loop runs a callback that is due, and time passes.
SpecLive ==
    /\ Init
    /\ [][NextLive]_vars
    /\ WF_vars(Tick)
    /\ WF_vars(AdvanceLive)

----------------------------------------------------------------------------
(* Properties.                                                             *)

\* what a call can change of the instance, apart from its own output
Core(s) ==
    <<s.runState, s.session, s.interval, s.start, s.cumulated, s.now,
      s.countDown, s.scheduled>>

Active(s) == is_counting(s) \/ is_paused(s)

C2_OneRegistration ==
    /\ [](/\ Len(timer.scheduled) <= 1
          /\ (Len(timer.scheduled) = 1 <=> is_counting(timer)))
    /\ [][/\ Len(timer'.scheduled) > Len(timer.scheduled)
              => (call'.op \in {"start", "toggle"} /\ Has(timer', "sessionStarted"))
          /\ Len(timer'.scheduled) < Len(timer.scheduled)
              => /\ call'.op \in {"stop", "pause", "toggle", "tick"}
                 /\ Has(timer', "sessionStopped") \/ Has(timer', "sessionPaused")]_vars

\* a second start() on a running timer left its single registration in place
C2_Witness ==
    /\ call.op = "start" /\ timer.returned = "false"
    /\ is_counting(timer) /\ Len(timer.scheduled) = 1 /\ timer.countDown

\* C3: start() on a timer that is already running returns false, publishes
\* nothing, leaves the times, the status, elapsedMs() and the registration as they
\* were; no second registration exists, and a tick publishes currentTime at most
\* once.
C3_ReentrantStart ==
    [][/\ (call'.op = "start" /\ is_counting(timer))
            => /\ timer'.returned = "false"
               /\ timer'.published = <<>>
               /\ Core(timer') = Core(timer)
               /\ ellapsed(timer') = ellapsed(timer)
               /\ Len(timer'.scheduled) = 1
       /\ call'.op = "tick"
            => /\ Count(timer'.published, "currentTime") <= 1
               /\ Len(timer.scheduled) = 1]_vars

\* a tick after the re-entrant start() is possible: the timer is still running,
\* time has been counted and its one registration is due
C3_Witness ==
    /\ call.op = "start" /\ timer.returned = "false"
    /\ is_counting(timer) /\ runMs > 0
    /\ Len(timer.scheduled) = 1 /\ clock >= timer.scheduled[1]

\* C4: cancellation is synchronous.  While the status is paused or stopped no
\* registration is active, and every tick runs on a running timer: no tick
\* samples the time or publishes currentTime between a stop() or pause() that took
\* effect and the next start() that takes effect.
C4_NoTickAfterCancel ==
    /\ [](timer.runState \in {"paused", "stopped"} => timer.scheduled = <<>>)
    /\ [][call'.op = "tick" => is_counting(timer)]_vars
    /\ [][(timer.runState \in {"paused", "stopped"} /\ timer'.scheduled # <<>>)
             => (call'.op \in {"start", "toggle"} /\ timer'.runState = "running")]_vars

\* paused for at least one interval: the cancelled registration would have fired
C4_Witness ==
    /\ is_paused(timer) /\ call.op = "advance"
    /\ timer.now + timer.interval <= clock
    /\ timer.scheduled = <<>>

C6_DroppedChangeReturnsFalse ==
    [][(/\ call'.op = "changeStep"
        /\ call'.options.step = "session"
        /\ Active(timer)
        /\ ~convertFails(call'.options)
        /\ newValue(timer, call'.options) <= ellapsed(timer))
          => /\ Core(timer') = Core(timer)
             /\ timer'.published = <<>>
             /\ timer'.returned = "false"]_vars

\* C7: a stop() that takes effect, called by the client or by a tick, leaves the
\* timer stopped with elapsedMs() equal to the time run, capped at the session
\* length: never above the session length, and equal to it when the time run
\* exceeded it.
C7_StopClamps ==
    [][/\ (call'.op = "stop" /\ timer'.returned = "this") => timer'.runState = "stopped"
       /\ (Active(timer) /\ timer'.runState = "stopped")
            => /\ ellapsed(timer') <= timer'.session
               /\ ellapsed(timer') = Min(runMs', timer'.session)
               /\ timer'.cumulated <= timer'.session]_vars

\* stopped after running for longer than the session
C7_Witness ==
    /\ call.op = "stop" /\ timer.returned = "this" /\ timer.runState = "stopped"
    /\ timer.session > 0 /\ runMs > timer.session
    /\ ellapsed(timer) = timer.session

\* C8: reset() in any run state leaves elapsedMs() = 0 and publishes timerReset
\* (and nothing else), leaves the run state as it was and leaves the
\* registration, if any, active and due when it was due.
C8_ResetFrame ==
    [][call'.op = "reset"
         => /\ ellapsed(timer') = 0
            /\ timer'.published = <<"timerReset">>
            /\ timer'.runState = timer.runState
            /\ timer'.scheduled = timer.scheduled
            /\ timer'.countDown = timer.countDown
            /\ timer'.session = timer.session]_vars

\* reset() of a running timer that had counted time: still running, still registered
C8_Witness ==
    /\ call.op = "reset" /\ is_counting(timer) /\ clock > timer.scheduled[1] - timer.interval
    /\ Len(timer.scheduled) = 1 /\ ellapsed(timer) = 0 /\ timer.start = clock

\* C9: a start() that resumes a paused timer leaves elapsedMs() as it was while
\* paused, and time passing while paused does not change it; a start() from idle
\* or stopped begins with elapsedMs() = 0, whatever was banked before.
C9_ResumeInPlace ==
    [][/\ (call'.op = "start" /\ timer'.returned = "this")
            => /\ is_counting(timer')
               /\ IF is_paused(timer)
                  THEN ellapsed(timer') = ellapsed(timer) /\ ~Has(timer', "timerReset")
                  ELSE ellapsed(timer') = 0 /\ timer'.cumulated = 0
       /\ (call'.op = "advance" /\ is_paused(timer))
            => ellapsed(timer') = ellapsed(timer)]_vars

\* resumed after a pause during which time passed, with time banked
C9_Witness ==
    /\ call.op = "start" /\ timer.returned = "this" /\ ~Has(timer, "timerReset")
    /\ idled /\ ellapsed(timer) > 0 /\ ellapsed(timer) = runMs

\* C10: stop() on a timer that is neither running nor paused, and pause() on a
\* timer that is not running, return false, publish nothing and leave the status,
\* the times and the registration as they were.
C10_NoOpStopPause ==
    [][(\/ (call'.op = "stop" /\ ~Active(timer))
        \/ (call'.op = "pause" /\ ~is_counting(timer)))
          => /\ timer'.returned = "false"
             /\ timer'.published = <<>>
             /\ Core(timer') = Core(timer)]_vars

\* a second stop() after a stop
C10_Witness ==
    /\ call.op = "stop" /\ timer.returned = "false" /\ timer.runState = "stopped"
    /\ timer.published = <<>> /\ runMs > 0

\* the run state changes a step may make
Transitions ==
    {<<"idle", "running">>, <<"running", "paused">>, <<"paused", "running">>,
     <<"running", "stopped">>, <<"paused", "stopped">>,
     <<"stopped", "idle">>, <<"stopped", "running">>}

\* C11: the run state is always exactly one of idle, running, paused, stopped,
\* and a step changes it only along idle -> running, running -> paused,
\* paused -> running, running -> stopped, paused -> stopped, stopped -> idle and
\* stopped -> running; in particular nothing leads from idle to paused or stopped.
C11_RunStateTransitions ==
    /\ [](timer.runState \in RunStates)
    /\ [][timer'.runState # timer.runState
            => <<timer.runState, timer'.runState>> \in Transitions]_vars
    /\ [][timer.runState = "idle" => timer'.runState \in {"idle", "running"}]_vars

\* a stop() of a timer that had been paused for a while: idle -> running ->
\* paused -> stopped has been walked
C11_Witness ==
    /\ call.op = "stop" /\ timer.returned = "this" /\ timer.runState = "stopped"
    /\ idled /\ timer.now < clock

\* C12: in every reachable state the session length is not negative,
\* 0 <= elapsedMs() <= sessionLengthMs and
\* remainingMs() = sessionLengthMs - elapsedMs() >= 0, also after a session
\* changeStep on an idle or stopped timer.
C12_ElapsedWithinSession ==
    /\ timer.session >= 0
    /\ 0 <= ellapsed(timer) /\ ellapsed(timer) <= timer.session
    /\ remaining(timer) = timer.session - ellapsed(timer)
    /\ remaining(timer) >= 0

\* a stopped timer whose session was cut below the time it had banked
C12_Witness ==
    /\ call.op = "changeStep" /\ timer.runState = "stopped"
    /\ Has(timer, "sessionChanged")
    /\ timer.cumulated > timer.session
    /\ ellapsed(timer) = timer.session /\ remaining(timer) = 0

\* the value the specification prescribes for a session changeStep with options o
\* on instance s
Prescribed(s, o) ==
    LET sign == IF o.sign \in {1, -1} THEN o.sign ELSE 1
        increment == IF o.increment \in {0, 1} THEN o.increment ELSE 0
        delta == convert(o) * sign
    IN  Max(0, IF increment = 1 THEN s.session + delta ELSE delta)

\* the effect of a successful session changeStep
Committed(s, n, o) ==
    /\ n.session = Prescribed(s, o)
    /\ n.published = <<"sessionChanged", "currentTime">>
    /\ n.returned = "true"
    /\ [n EXCEPT !.session = s.session, !.published = <<>>, !.returned = "none"] = s

\* C13 as stated: a session changeStep succeeds whenever the timer is neither
\* running nor paused, or the prescribed value exceeds elapsedMs().
C13_Original ==
    [][(/\ call'.op = "changeStep"
        /\ call'.options.step = "session"
        /\ ~convertFails(call'.options)
        /\ ~Active(timer) \/ Prescribed(timer, call'.options) > ellapsed(timer))
          => Committed(Begin(timer), timer', call'.options)]_vars

\* C13, amended: the same, for a change whose sign (after normalisation) is 1 or
\* whose current session length is above 0; a change with sign -1 of a session of
\* length 0 returns false, commits nothing and publishes nothing.
C13_SessionChange ==
    [][(/\ call'.op = "changeStep"
        /\ call'.options.step = "session"
        /\ ~convertFails(call'.options))
          => IF call'.options.sign = -1 /\ timer.session = 0
             THEN /\ timer'.returned = "false"
                  /\ timer'.published = <<>>
                  /\ Core(timer') = Core(timer)
             ELSE (~Active(timer) \/ Prescribed(timer, call'.options) > ellapsed(timer))
                    => Committed(Begin(timer), timer', call'.options)]_vars

\* a change with sign and increment out of range, on a running timer
C13_Witness ==
    /\ call.op = "changeStep" /\ call.options.step = "session"
    /\ call.options.sign = 0 /\ call.options.increment = 2
    /\ is_counting(timer) /\ timer.returned = "true"
    /\ timer.published = <<"sessionChanged", "currentTime">>
    /\ timer.session = call.options.value

\* C14: changeStep on a step that is neither session nor interval raises an
\* error, and leaves the session length, the interval, the status and the times
\* as they were, with nothing published.
C14_UnknownStepThrows ==
    [][(call'.op = "changeStep" /\ call'.options.step \notin {"session", "interval"})
          => /\ timer'.returned = "throw"
             /\ timer'.published = <<>>
             /\ Core(timer') = Core(timer)]_vars

\* changeStep on an unknown step of a running timer
C14_Witness ==
    /\ call.op = "changeStep" /\ call.options.step = "bogus"
    /\ timer.returned = "throw" /\ is_counting(timer) /\ runMs > 0

\* C15: toggle lets no error of the invoked method reach its caller, and when
\* the invoked method raises it falls back to start(): the timer is running
\* afterwards.
C15_ToggleFallsBack ==
    [][(call'.op = "toggle"
          /\ invoke(Begin(timer), call'.method, clock).returned = "throw")
          => /\ timer'.returned # "throw"
             /\ is_counting(timer')]_vars

\* C16: a conversion failure in changeStep on a recognized step does not reach
\* the caller as an error: the call returns its failure result, with the steps,
\* the status and the times as they were and nothing published.
C16_ConversionFailureCaught ==
    [][(/\ call'.op = "changeStep"
        /\ call'.options.step \in {"session", "interval"}
        /\ convertFails(call'.options))
          => /\ timer'.returned = "false"
             /\ timer'.published = <<>>
             /\ Core(timer') = Core(timer)]_vars

C19_Toggle ==
    [][call'.op = "toggle" =>
         /\ call'.method = "stop" =>
              IF Active(timer)
              THEN timer'.runState = "stopped" /\ ~Has(timer', "sessionStarted")
                   /\ Has(timer', "sessionStopped")
              ELSE is_counting(timer') /\ Has(timer', "sessionStarted")
         /\ call'.method = "pause" =>
              IF is_counting(timer)
              THEN is_paused(timer') /\ ~Has(timer', "sessionStarted")
                   /\ Has(timer', "sessionPaused")
              ELSE is_counting(timer') /\ Has(timer', "sessionStarted")
         /\ Len(timer'.scheduled) <= 1
         /\ Len(timer'.scheduled) = 1 <=> is_counting(timer')]_vars

\* toggle("pause") has resumed a timer that was paused for a while
C19_Witness ==
    /\ call.op = "toggle" /\ call.method = "pause"
    /\ is_counting(timer) /\ timer.published = <<"sessionStarted">>
    /\ idled /\ timer.cumulated > 0

\* C20: stop() of a paused timer banks nothing: elapsedMs() after the stop is
\* elapsedMs() of the paused timer, which is the time run before the pause
\* (capped at the session length), whatever time has passed since.
C20_StopWhilePaused ==
    [][(is_paused(timer) /\ timer'.runState = "stopped")
          => /\ ellapsed(timer') = ellapsed(timer)
             /\ ellapsed(timer') = Min(runMs', timer'.session)
             /\ timer'.cumulated = Min(timer.cumulated, timer.session)]_vars

\* stopped while paused, after time passed in the pause
C20_Witness ==
    /\ call.op = "stop" /\ timer.returned = "this" /\ timer.runState = "stopped"
    /\ idled /\ timer.now < clock
    /\ runMs > 0 /\ runMs < timer.session /\ ellapsed(timer) = runMs

\* the calls listener[method]() that the registrations regs ask for, in order
Targets(regs) ==
    [i \in 1..Len(regs) |-> [listener |-> regs[i].listener, method |-> regs[i].method]]

\* the calls due for a sequence of published events, given the registrations
RECURSIVE Deliveries(_, _)
Deliveries(published, regs) ==
    IF published = <<>>
    THEN <<>>
    ELSE Targets(regs[Head(published)]) \o Deliveries(Tail(published), regs)

\* C17: every step invokes, for each event it publishes and in the order of
\* publication, exactly the registrations of that event that were made and not
\* removed, each once, oldest first; a remove() takes away its own registration
\* only, so the others keep being invoked in the same order and a removed
\* listener is not invoked again.
C17_PublishDelivers ==
    [][/\ timer'.invoked = Deliveries(timer'.published, live)
       /\ \A e \in events :
            /\ Len(live'[e]) <= Len(timer'.listeners[e])
            /\ \A i \in 1..Len(live'[e]) :
                 /\ live'[e][i].index <= Len(timer'.listeners[e])
                 /\ timer'.listeners[e][live'[e][i].index]
                      = [listener |-> live'[e][i].listener, method |-> live'[e][i].method]
                 /\ i > 1 => live'[e][i - 1].index < live'[e][i].index]_vars

\* a tick publishes currentTime to the second listener after the first,
\* subscribed earlier, was removed
C17_Witness ==
    /\ call.op = "tick" /\ timer.published = <<"currentTime">>
    /\ Len(timer.listeners["currentTime"]) = 2
    /\ timer.listeners["currentTime"][1] = Hole
    /\ Len(timer.invoked) = 1
    /\ timer.invoked[1] = timer.listeners["currentTime"][2]

\* a call that ends the premise of C21: the client has intervened
Intervened == call.op \in {"pause", "stop", "reset", "changeStep", "toggle"}

\* C21: under fair delivery of ticks a running timer eventually is stopped with
\* its registration cancelled, unless the client intervenes with pause(), stop(),
\* reset() or changeStep() first; and a stopped timer stays stopped, with no
\* registration, in every step that is not a new start().
C21_EventuallyStopped ==
    /\ [](is_counting(timer)
            => <>(\/ (timer.runState = "stopped" /\ timer.scheduled = <<>>
                         /\ ~timer.countDown)
                  \/ Intervened))
    /\ [][(timer.runState = "stopped" /\ call'.op # "start")
            => (timer'.runState = "stopped" /\ timer'.scheduled = <<>>)]_vars

\* a tick has stopped a timer that was left alone after it was resumed, and
\* time has gone on since without another tick
C21_Witness ==
    /\ timer.runState = "stopped" /\ timer.scheduled = <<>> /\ ~timer.countDown
    /\ idled /\ timer.session > 0 /\ ellapsed(timer) = timer.session
    /\ call.op = "advance" /\ clock > MaxClock + timer.interval

\* C22: a start() takes effect exactly when the timer is not running, and then
\* publishes sessionStarted exactly once, within the call, as its last event:
\* after timerReset, and nothing else, when it starts from idle or stopped, and
\* alone, with no timerReset, when it resumes from paused.  A start() made by
\* toggle also publishes sessionStarted once and last, and no other call and no
\* tick publishes sessionStarted.
C22_StartPublishes ==
    [][/\ call'.op = "start" =>
             /\ (timer'.returned = "this") <=> ~is_counting(timer)
             /\ timer'.published =
                    IF is_counting(timer) THEN <<>>
                    ELSE IF is_paused(timer) THEN <<"sessionStarted">>
                    ELSE <<"timerReset", "sessionStarted">>
       /\ Has(timer', "sessionStarted") =>
             /\ call'.op \in {"start", "toggle"}
             /\ Count(timer'.published, "sessionStarted") = 1
             /\ timer'.published[Len(timer'.published)] = "sessionStarted"
             /\ is_counting(timer')]_vars

\* a start() of a timer that was not running and not paused, some time after
\* its construction: timerReset, then sessionStarted
C22_Witness ==
    /\ call.op = "start" /\ timer.returned = "this"
    /\ timer.published = <<"timerReset", "sessionStarted">>
    /\ clock > 0 /\ timer.start = clock /\ timer.cumulated = 0
    /\ is_counting(timer) /\ Len(timer.scheduled) = 1

\* C23: a step publishes currentTime only if it is a tick of a running timer
\* whose session is not complete (currentTime alone), or a session changeStep
\* that was applied (currentTime right after sessionChanged, once); so a timer
\* that is paused, stopped or idle publishes it only through changeStep, and
\* start(), stop(), pause(), reset() and toggle never publish it.
C23_CurrentTimeSources ==
    [][/\ Has(timer', "currentTime") =>
             \/ /\ call'.op = "tick"
                /\ is_counting(timer) /\ ~isEllapsed(timer)
                /\ timer'.published = <<"currentTime">>
             \/ /\ call'.op = "changeStep" /\ call'.options.step = "session"
                /\ timer'.published = <<"sessionChanged", "currentTime">>
                /\ timer'.returned = "true"
                /\ timer'.session = newValue(timer, call'.options)
                /\ ~Active(timer) \/ timer'.session > ellapsed(timer)
       /\ (Has(timer', "currentTime") /\ ~is_counting(timer))
             => call'.op = "changeStep"
       /\ call'.op \in {"start", "stop", "pause", "reset", "toggle"}
             => ~Has(timer', "currentTime")]_vars

\* a session changeStep has published currentTime on a timer paused for a while
C23_Witness ==
    /\ call.op = "changeStep" /\ is_paused(timer) /\ idled
    /\ timer.published = <<"sessionChanged", "currentTime">>
    /\ timer.scheduled = <<>> /\ timer.session > ellapsed(timer)

\* C24: changeStep with sign -1 on a recognized step whose current length is 0
\* returns false, whatever the run state and whatever the value and the units
\* (they are not converted, so a malformed value raises nothing), publishes
\* nothing and leaves the steps, the status, the times and the registration as
\* they were.
C24_ShrinkOfZeroStep ==
    [][(/\ call'.op = "changeStep"
        /\ call'.options.step \in steps
        /\ call'.options.sign = -1
        /\ stepValue(timer, call'.options.step) = 0)
          => /\ timer'.returned = "false"
             /\ timer'.published = <<>>
             /\ Core(timer') = Core(timer)]_vars

\* a malformed change with sign -1 on a paused timer whose session is 0
C24_Witness ==
    /\ call.op = "changeStep" /\ call.options.step = "session"
    /\ call.options.sign = -1 /\ convertFails(call.options)
    /\ timer.session = 0 /\ is_paused(timer)
    /\ timer.returned = "false" /\ timer.published = <<>>

====
